---- MODULE Spec2Model ----
(***************************************************************************)
(* Model of klio_core/options.py: the MutuallyExclusiveOption click option *)
(* class, the _verify_gcs_uri callback and the shared option factories     *)
(* job_dir, config_file and override, together with the way a click        *)
(* command drives them: the raw arguments are parsed into `opts`, then     *)
(* handle_parse_result is called once per declared parameter, and the      *)
(* command body runs when every call returned.                             *)
(*                                                                         *)
(* Python strings are sequences of one-character strings, so that          *)
(* str.replace and str.startswith are computed and not assumed.  Python's  *)
(* None is the one-element sequence <<"None">>, which is no string of the  *)
(* model because "None" is not a character.                                *)
(***************************************************************************)
EXTENDS Naturals, Integers, Sequences, FiniteSets, TLC

VARIABLES
    command,     \* the command's params: option name -> option object
    argv,        \* the invocation: supplied option name -> raw value
    args,        \* the positional arguments of the invocation
    opts,        \* the parser's result handed to every handle_parse_result
    ctx_params,  \* ctx.params: option name -> processed value
    returned,    \* option name -> what its handle_parse_result returned
    order,       \* the names whose handle_parse_result was called, in order
    error,       \* the exception that ended the invocation, or NoError
    pc,          \* position of the invocation
    var,         \* argument of _varname_to_opt_flag
    flag,        \* what was computed from var
    ctx,         \* _verify_gcs_uri: the ctx argument
    param,       \* _verify_gcs_uri: the param argument
    value,       \* _verify_gcs_uri: the value argument
    result       \* _verify_gcs_uri: its outcome

vars == <<command, argv, args, opts, ctx_params, returned, order, error, pc,
          var, flag, ctx, param, value, result>>

cmdVars == <<command, argv, args, opts, ctx_params, returned, order, error>>
flagVars == <<var, flag>>
gcsVars == <<ctx, param, value, result>>

----------------------------------------------------------------------------
(* Bounds *)

\* longest `mutex` list passed to a factory
MaxMutexLen == 2
\* longest generated argument of _varname_to_opt_flag
MaxVarLen == 4
\* longest generated value given to _verify_gcs_uri
MaxUriLen == 6

----------------------------------------------------------------------------
(* Strings *)

None == <<"None">>
NoError == [kind |-> "NoError"]
Idle == <<>>
EmptyMap == [n \in {} |-> None]

Range(s) == {s[i] : i \in 1..Len(s)}

Strings(alphabet, n) == UNION {[1..k -> alphabet] : k \in 0..n}

\* set iteration order is not fixed by the language: every ordering of S
Orderings(S) ==
    {s \in [1..Cardinality(S) -> S] : \A i, j \in 1..Cardinality(S) : s[i] = s[j] => i = j}

\* str.replace(old, new) for one-character old and new
RECURSIVE Replace(_, _, _)
Replace(s, old, new) ==
    IF s = <<>> THEN <<>>
    ELSE <<IF Head(s) = old THEN new ELSE Head(s)>> \o Replace(Tail(s), old, new)

\* str.startswith(prefix)
StartsWith(s, prefix) ==
    /\ Len(s) >= Len(prefix)
    /\ SubSeq(s, 1, Len(prefix)) = prefix

\* whether `part` occurs as the element of a list of strings
Mentions(list, part) == \E i \in 1..Len(list) : list[i] = part

----------------------------------------------------------------------------
(* Names and values of the model *)

job_dir_name == <<"j", "o", "b", "_", "d", "i", "r">>
config_file_name == <<"c", "o", "n", "f", "i", "g", "_", "f", "i", "l", "e">>
override_name == <<"o", "v", "e", "r", "r", "i", "d", "e">>
an_option == <<"a", "n", "_", "o", "p", "t", "i", "o", "n">>

job_dir_flag == <<"-", "-", "j", "o", "b", "-", "d", "i", "r">>
config_file_flag == <<"-", "-", "c", "o", "n", "f", "i", "g", "-", "f", "i", "l", "e">>
override_flag == <<"-", "-", "o", "v", "e", "r", "r", "i", "d", "e">>
an_option_flag == <<"-", "-", "a", "n", "-", "o", "p", "t", "i", "o", "n">>

\* the names a command may declare and a mutex list may hold; a command
\* declares a subset of them, so a companion may name an undeclared option
OptionNames == {job_dir_name, config_file_name, override_name}

Cwd == <<".">>
TmpDir == <<"/", "t", "m", "p">>
MissingDir == <<"/", "n", "o">>
XYaml == <<"x", ".", "y", "a", "m", "l">>
KlioJobYaml == <<"k", "l", "i", "o", "-", "j", "o", "b", ".", "y", "a", "m", "l">>
KeyValue == <<"k", "=", "v">>

\* the file system of the invocation
ExistingPaths == {Cwd, TmpDir}

----------------------------------------------------------------------------
(* MutuallyExclusiveOption *)

NoteText == "\n\n**NOTE:** This option is mutually exclusive with ["
NoteEnd == "]."

\* kwargs.get(key, default) / kwargs.pop(key, default)
KwGet(kwargs, key, default) == IF key \in DOMAIN kwargs THEN kwargs[key] ELSE default

\* the option name click derives from the long flag of the declaration
ClickName(long_flag) == Replace(SubSeq(long_flag, 3, Len(long_flag)), "-", "_")

\* mutant: the underscores are kept
_varname_to_opt_flag_NoReplace(v) == <<"-", "-">> \o v

\* mutant: only the first underscore is replaced
_varname_to_opt_flag_FirstOnly(v) ==
    IF \E i \in 1..Len(v) : v[i] = "_"
    THEN LET k == CHOOSE i \in 1..Len(v) : v[i] = "_" /\ \A j \in 1..(i - 1) : v[j] # "_"
         IN  <<"-", "-">> \o [i \in 1..Len(v) |-> IF i = k THEN "-" ELSE v[i]]
    ELSE <<"-", "-">> \o v

_varname_to_opt_flag(v) == <<"-", "-">> \o Replace(v, "_", "-")

\* the grave accent U+0060, which a TLA+ string cannot hold
Grave == "GRAVE"

\* the format of __init__ that wraps m in two grave accents on each side
HelpQuote(m) == <<Grave, Grave>> \o m \o <<Grave, Grave>>

\* the concatenation of handle_parse_result that wraps m in grave accents
MsgQuote(m) == <<Grave>> \o m \o <<Grave>>

\* mutant: the note is appended whatever the companion set
HelpWithNote_Always(help_text, mut_ex_opts, it) ==
    <<help_text, NoteText,
      [i \in 1..Len(it) |-> HelpQuote(<<"-", "-">> \o Replace(it[i], "_", "-"))], NoteEnd>>

\* the help text __init__ hands to click.Option, for one iteration order
\* of self.mut_ex_opts; ", ".join is kept as the list it joins
HelpWithNote(help_text, mut_ex_opts, it) ==
    IF mut_ex_opts # {}
    THEN <<help_text, NoteText,
           [i \in 1..Len(it) |-> HelpQuote(_varname_to_opt_flag(it[i]))], NoteEnd>>
    ELSE <<help_text>>

\* MutuallyExclusiveOption.__init__: the option objects it can build
MutuallyExclusiveOption(long_flag, type, help_text, kwargs) ==
    LET mut_ex_opts == Range(KwGet(kwargs, "mutually_exclusive", <<>>))
    IN  {[name |-> ClickName(long_flag),
          cls |-> "MutuallyExclusiveOption",
          mut_ex_opts |-> mut_ex_opts,
          help |-> HelpWithNote(help_text, mut_ex_opts, it),
          type |-> type,
          default |-> None] : it \in Orderings(mut_ex_opts)}

\* mutant: the own name of the option is not looked up
MutexViolation_NoNameCheck(self, o) == self.mut_ex_opts \cap DOMAIN o # {}

\* mutant: the companions are not looked up
MutexViolation_NameOnly(self, o) == self.name \in DOMAIN o

\* mutant: or in place of and
MutexViolation_Or(self, o) ==
    \/ self.mut_ex_opts \cap DOMAIN o # {}
    \/ self.name \in DOMAIN o

\* the condition of the if of handle_parse_result
MutexViolation(self, o) ==
    /\ self.mut_ex_opts \cap DOMAIN o # {}
    /\ self.name \in DOMAIN o

\* mutant: only the supplied companions are listed
MessageCompanions_Supplied(self, o) == self.mut_ex_opts \cap DOMAIN o

\* the names the usage error lists after "is mutually exclusive with"
MessageCompanions(self, o) == self.mut_ex_opts

\* the message of the usage error, for one iteration order of the companions
UsageMessage(self, it) ==
    [flag |-> _varname_to_opt_flag(self.name),
     mutex |-> [i \in 1..Len(it) |-> MsgQuote(_varname_to_opt_flag(it[i]))]]

\* click.Option.handle_parse_result, which the class delegates to: the
\* supplied value or the default, converted by the option's type, stored
\* in ctx.params by the caller of this operator
Option_handle_parse_result(self, o, a) ==
    LET v == IF self.name \in DOMAIN o THEN o[self.name] ELSE self.default
    IN  IF self.type = "Path(exists=True)" /\ v # None /\ v \notin ExistingPaths
        THEN [kind |-> "BadParameter", msg |-> <<"does not exist">>]
        ELSE [kind |-> "returned", value |-> v, args |-> a]

\* mutant: the check is skipped
handle_parse_result_NoCheck(self, o, a) == {Option_handle_parse_result(self, o, a)}

\* MutuallyExclusiveOption.handle_parse_result: its possible outcomes
handle_parse_result(self, o, a) ==
    IF MutexViolation(self, o)
    THEN {[kind |-> "UsageError", msg |-> UsageMessage(self, it)] :
              it \in Orderings(MessageCompanions(self, o))}
    ELSE {Option_handle_parse_result(self, o, a)}

----------------------------------------------------------------------------
(* _verify_gcs_uri *)

GsPrefix == <<"g", "s", ":", "/", "/">>

\* Python truthiness of an optional string
Truthy(v) == v # None /\ v # <<>>

\* mutant: only None is let through, the empty string is not
_verify_gcs_uri_NoneOnly(c, p, v) ==
    IF v # None /\ ~StartsWith(v, GsPrefix)
    THEN [kind |-> "BadParameter"]
    ELSE [kind |-> "returned", value |-> v]

_verify_gcs_uri(c, p, v) ==
    IF Truthy(v) /\ ~StartsWith(v, GsPrefix)
    THEN [kind |-> "BadParameter"]
    ELSE [kind |-> "returned", value |-> v]

----------------------------------------------------------------------------
(* The shared option factories *)

EmptyKwargs == [k \in {} |-> <<>>]

\* job_dir(*args, **kwargs); used bare (args holds the command function)
\* or called first, the same wrapper attaches the same option
job_dir(fargs, kwargs) ==
    MutuallyExclusiveOption(job_dir_flag, "Path(exists=True)", "job_dir help",
                            [mutually_exclusive |-> KwGet(kwargs, "mutex", <<>>)])

\* config_file(*args, **kwargs)
config_file(fargs, kwargs) ==
    MutuallyExclusiveOption(config_file_flag, "Path(exists=False)", "config_file help",
                            [mutually_exclusive |-> KwGet(kwargs, "mutex", <<>>)])

\* override(func): a plain click.Option
override ==
    [name |-> ClickName(override_flag),
     cls |-> "Option",
     help |-> <<"override help">>,
     type |-> "STRING",
     default |-> <<>>]

----------------------------------------------------------------------------
(* Inputs *)

MutexLists == Strings(OptionNames, MaxMutexLen)

FactoryCalls ==
    {[fargs |-> a, kwargs |-> k] :
        a \in {<<>>, <<"func">>},
        k \in {EmptyKwargs} \cup {[mutex |-> m] : m \in MutexLists}}

JobDirs == UNION {job_dir(c.fargs, c.kwargs) : c \in FactoryCalls}
ConfigFiles == UNION {config_file(c.fargs, c.kwargs) : c \in FactoryCalls}

Supplied(n, jv) ==
    IF n = job_dir_name THEN jv
    ELSE IF n = config_file_name THEN XYaml
    ELSE <<KeyValue>>

Identifiers ==
    Strings({"a", "n", "_", "-"}, MaxVarLen)
        \cup {an_option, job_dir_name, config_file_name}

UriValues == {None} \cup Strings({"g", "G", "s", ":", "/"}, MaxUriLen)

----------------------------------------------------------------------------
(* One invocation of a command *)

IsMutex(o) == o.cls = "MutuallyExclusiveOption"

Outcomes(self, o, a) ==
    IF IsMutex(self) THEN handle_parse_result(self, o, a)
    ELSE {Option_handle_parse_result(self, o, a)}

InitCommand ==
    /\ \E D \in SUBSET OptionNames \ {{}} :
         /\ \E jd \in JobDirs, cf \in ConfigFiles :
              command = [n \in D |-> IF n = job_dir_name THEN jd
                                     ELSE IF n = config_file_name THEN cf
                                     ELSE override]
         /\ \E S \in SUBSET D, jv \in {TmpDir, MissingDir} :
              argv = [n \in S |-> Supplied(n, jv)]
    /\ args \in {<<>>, <<XYaml>>}
    /\ opts = EmptyMap
    /\ ctx_params = EmptyMap
    /\ returned = EmptyMap
    /\ order = <<>>
    /\ error = NoError

Init ==
    /\ InitCommand
    /\ pc = "parse"
    /\ var = Idle /\ flag = Idle
    /\ ctx = Idle /\ param = Idle /\ value = Idle /\ result = Idle

\* the parser turns the raw arguments into opts, before any param is handled
ParseArgs ==
    /\ pc = "parse"
    /\ opts' = argv
    /\ pc' = "process"
    /\ UNCHANGED <<command, argv, args, ctx_params, returned, order, error>>
    /\ UNCHANGED <<flagVars, gcsVars>>

\* one call of handle_parse_result, on a param not handled yet
HandleParseResult(n) ==
    /\ pc = "process"
    /\ n \in DOMAIN command
    /\ n \notin Range(order)
    /\ order' = Append(order, n)
    /\ \E out \in Outcomes(command[n], opts, args) :
         IF out.kind = "returned"
         THEN /\ ctx_params' = (n :> out.value) @@ ctx_params
              /\ returned' = (n :> <<out.value, out.args>>) @@ returned
              /\ UNCHANGED <<error, pc>>
         ELSE /\ error' = [kind |-> out.kind, raiser |-> n, msg |-> out.msg]
              /\ pc' = "failed"
              /\ UNCHANGED <<ctx_params, returned>>
    /\ UNCHANGED <<command, argv, args, opts>>
    /\ UNCHANGED <<flagVars, gcsVars>>

\* the command body runs with ctx.params once every param was handled
Invoke ==
    /\ pc = "process"
    /\ Range(order) = DOMAIN command
    /\ pc' = "invoked"
    /\ UNCHANGED <<cmdVars, flagVars, gcsVars>>

Next ==
    \/ ParseArgs
    \/ \E n \in OptionNames : HandleParseResult(n)
    \/ Invoke

Spec == Init /\ [][Next]_vars

----------------------------------------------------------------------------
(* The flag rendering rule, applied where the class applies it *)

InitFlag ==
    /\ var \in Identifiers
    /\ flag = Idle
    /\ pc = "flag"
    /\ command = Idle /\ argv = Idle /\ args = Idle /\ opts = Idle
    /\ ctx_params = Idle /\ returned = Idle /\ order = Idle /\ error = NoError
    /\ ctx = Idle /\ param = Idle /\ value = Idle /\ result = Idle

\* a direct call of the static method
CallVarnameToOptFlag ==
    /\ pc = "flag"
    /\ flag' = [by |-> "call", out |-> _varname_to_opt_flag(var)]
    /\ pc' = "flag_done"
    /\ UNCHANGED <<var, cmdVars, gcsVars>>

\* an option is declared with var as its only companion
DeclareWithCompanion ==
    /\ pc = "flag"
    /\ \E o \in MutuallyExclusiveOption(an_option_flag, "STRING", "help",
                                         [mutually_exclusive |-> <<var>>]) :
         flag' = [by |-> "help", out |-> o.help]
    /\ pc' = "flag_done"
    /\ UNCHANGED <<var, cmdVars, gcsVars>>

\* the option whose long flag is rendered from var is supplied together
\* with its only companion var
RaiseWithCompanion ==
    /\ pc = "flag"
    /\ \E o \in MutuallyExclusiveOption(_varname_to_opt_flag(var), "STRING", "help",
                                         [mutually_exclusive |-> <<var>>]) :
         \E out \in handle_parse_result(o, [n \in {o.name, var} |-> XYaml], <<>>) :
            flag' = [by |-> "error", out |-> out]
    /\ pc' = "flag_done"
    /\ UNCHANGED <<var, cmdVars, gcsVars>>

NextFlag ==
    \/ CallVarnameToOptFlag
    \/ DeclareWithCompanion
    \/ RaiseWithCompanion

SpecFlag == InitFlag /\ [][NextFlag]_vars

----------------------------------------------------------------------------
(* _verify_gcs_uri applied to one value *)

InitGcs ==
    /\ value \in UriValues
    /\ ctx \in {"ctx", "other ctx"}
    /\ param \in {"--input", "--output"}
    /\ result = Idle
    /\ pc = "gcs"
    /\ command = Idle /\ argv = Idle /\ args = Idle /\ opts = Idle
    /\ ctx_params = Idle /\ returned = Idle /\ order = Idle /\ error = NoError
    /\ var = Idle /\ flag = Idle

VerifyGcsUri ==
    /\ pc = "gcs"
    /\ result' = _verify_gcs_uri(ctx, param, value)
    /\ pc' = "gcs_done"
    /\ UNCHANGED <<ctx, param, value, cmdVars, flagVars>>

NextGcs == VerifyGcsUri

SpecGcs == InitGcs /\ [][NextGcs]_vars

----------------------------------------------------------------------------
(* Vocabulary of the properties *)

\* the set S of option names the user supplied
SuppliedNames == DOMAIN argv

Handled == Range(order)

\* the long flags as the declarations at lines 88-89 and 111-112 spell them
ExpectedFlag(n) ==
    IF n = job_dir_name THEN job_dir_flag
    ELSE IF n = config_file_name THEN config_file_flag
    ELSE override_flag

UsageErrorBy(n) == error.kind = "UsageError" /\ error.raiser = n

\* option n is supplied together with one of its companions
InViolation(n) ==
    /\ n \in DOMAIN command
    /\ IsMutex(command[n])
    /\ n \in SuppliedNames
    /\ command[n].mut_ex_opts \cap SuppliedNames # {}

HasViolation == \E n \in DOMAIN command : InViolation(n)

\* the message of the usage error mentions flag f
MessageMentions(f) ==
    \/ error.msg.flag = f
    \/ Mentions(error.msg.mutex, MsgQuote(f))

----------------------------------------------------------------------------
(* C1 *)

\* C1: for every handled MutuallyExclusiveOption with name n and companion
\* set M, and supplied set S, its handle_parse_result raised the usage
\* error if and only if n is in S and S \cap M is not empty; an option that
\* was not supplied never raises it, even when members of M were supplied.
C1_UsageErrorIffViolation ==
    \A i \in 1..Len(order) :
        LET n == order[i]
            M == command[n].mut_ex_opts
        IN  IsMutex(command[n]) =>
                (UsageErrorBy(n) <=> (n \in SuppliedNames /\ M \cap SuppliedNames # {}))

\* an unsupplied option whose companions were supplied returned, and a
\* supplied one raised the usage error
C1_Witness ==
    /\ pc = "failed"
    /\ error.kind = "UsageError"
    /\ \E n \in DOMAIN returned :
         /\ IsMutex(command[n])
         /\ n \notin SuppliedNames
         /\ command[n].mut_ex_opts \cap SuppliedNames # {}

----------------------------------------------------------------------------
(* C2 *)

\* C2 as stated: the usage error names the own flag of the option and
\* exactly the companions that were supplied (M \cap S), not the others.
C2_NamesIntersectionOnly ==
    error.kind = "UsageError" =>
        LET M == command[error.raiser].mut_ex_opts
        IN  /\ error.msg.flag = ExpectedFlag(error.raiser)
            /\ Range(error.msg.mutex) =
                   {MsgQuote(ExpectedFlag(m)) : m \in M \cap SuppliedNames}

\* C2 amended: the usage error names the own flag of the option and every
\* member of its declared companion set M, each once and rendered as a long
\* flag, whether or not that companion was supplied.
C2_NamesAllCompanions ==
    error.kind = "UsageError" =>
        LET M == command[error.raiser].mut_ex_opts
        IN  /\ error.msg.flag = ExpectedFlag(error.raiser)
            /\ Range(error.msg.mutex) = {MsgQuote(ExpectedFlag(m)) : m \in M}
            /\ Len(error.msg.mutex) = Cardinality(M)

\* a usage error of an option one of whose companions was not supplied
C2_Witness ==
    /\ error.kind = "UsageError"
    /\ command[error.raiser].mut_ex_opts \ SuppliedNames # {}
    /\ Len(error.msg.mutex) = 2

----------------------------------------------------------------------------
(* C3 *)

\* what C3 promises of a handled option n: no usage error of its own, and
\* the outcome of the base handling for the same opts and args
SameAsBase(n) ==
    LET base == Option_handle_parse_result(command[n], argv, args)
    IN  /\ ~UsageErrorBy(n)
        /\ IF base.kind = "returned"
           THEN /\ n \in DOMAIN returned
                /\ returned[n] = <<base.value, base.args>>
                /\ ctx_params[n] = argv[n]
           ELSE error = [kind |-> base.kind, raiser |-> n, msg |-> base.msg]

\* C3 as stated: for any companion set M, an invocation that supplies only
\* the option passes the check and returns what the base handling returns.
C3_OnlyOptionPasses ==
    \A i \in 1..Len(order) :
        LET n == order[i]
        IN  (IsMutex(command[n]) /\ SuppliedNames = {n}) => SameAsBase(n)

\* C3 amended: for any companion set M that does not hold the own name of
\* the option, an invocation that supplies only the option passes the check
\* and handle_parse_result returns (or raises) exactly what the base
\* handling does for the same opts and args.
C3_OnlyOptionPassesUnlessSelfListed ==
    \A i \in 1..Len(order) :
        LET n == order[i]
        IN  (/\ IsMutex(command[n])
             /\ SuppliedNames = {n}
             /\ n \notin command[n].mut_ex_opts) => SameAsBase(n)

\* the only supplied option, declared with two companions, returned
C3_Witness ==
    \E n \in DOMAIN returned :
        /\ IsMutex(command[n])
        /\ SuppliedNames = {n}
        /\ Cardinality(command[n].mut_ex_opts) = 2
        /\ returned[n] = <<argv[n], args>>

----------------------------------------------------------------------------
(* C4 *)

\* C4: an option declared with an empty companion set (job_dir and
\* config_file without a mutex argument included) never raises the usage
\* error, whatever is supplied, and its help text carries no note.
C4_EmptySetNeverFails ==
    /\ \A n \in DOMAIN command :
          (IsMutex(command[n]) /\ command[n].mut_ex_opts = {}) =>
              /\ ~UsageErrorBy(n)
              /\ Len(command[n].help) = 1
              /\ ~Mentions(command[n].help, NoteText)
    /\ \A a \in {<<>>, <<"func">>}, k \in {EmptyKwargs, [mutex |-> <<>>]} :
          \A o \in job_dir(a, k) \cup config_file(a, k) :
              o.mut_ex_opts = {} /\ o.help \in {<<"job_dir help">>, <<"config_file help">>}

\* an option with an empty companion set was supplied with every other
\* option of the command and returned
C4_Witness ==
    \E n \in DOMAIN returned :
        /\ IsMutex(command[n])
        /\ command[n].mut_ex_opts = {}
        /\ n \in SuppliedNames
        /\ Cardinality(SuppliedNames) = 3

----------------------------------------------------------------------------
(* C5 *)

\* the value begins with the five characters g s : / / in this very case
HasGsPrefix(v) ==
    /\ Len(v) >= 5
    /\ v[1] = "g" /\ v[2] = "s" /\ v[3] = ":" /\ v[4] = "/" /\ v[5] = "/"

\* C5: _verify_gcs_uri returns its value unchanged when the value is None
\* or the empty string or starts with gs://, and for every other value
\* raises the bad-parameter error and returns nothing; the test is case
\* sensitive and ctx and param play no part in it.
C5_VerifyGcsUri ==
    pc = "gcs_done" =>
        IF value = None \/ value = <<>> \/ HasGsPrefix(value)
        THEN result = [kind |-> "returned", value |-> value]
        ELSE result = [kind |-> "BadParameter"]

\* a value that has the prefix in upper case only was rejected
C5_Witness ==
    /\ pc = "gcs_done"
    /\ value = <<"G", "s", ":", "/", "/", "g">>
    /\ result.kind = "BadParameter"

----------------------------------------------------------------------------
(* C6 *)

\* C6 as stated: in an invocation that contains a violation, the usage
\* error is raised before the value of any option was processed, whatever
\* the order of the handle_parse_result calls, and the command body never
\* runs.
C6_ErrorBeforeAnyValueProcessing ==
    HasViolation =>
        /\ pc # "invoked"
        /\ DOMAIN ctx_params = {}
        /\ (pc = "failed" => error.kind = "UsageError")

\* C6 amended: in an invocation that contains a violation, every
\* handle_parse_result call sees the full supplied set, the value of an
\* option that is itself in violation is never processed, the invocation
\* ends in an error and the command body never runs; the options handled
\* before the first one in violation do have their values processed, and
\* the error is the usage error unless such processing failed first.
C6_ErrorBeforeViolatingValueProcessing ==
    HasViolation =>
        /\ pc # "invoked"
        /\ (pc # "parse" => opts = argv)
        /\ \A n \in DOMAIN ctx_params \cup DOMAIN returned : ~InViolation(n)
        /\ \A n \in Handled : InViolation(n) => (pc = "failed" /\ UsageErrorBy(n))
        /\ (pc = "failed" =>
               \/ error.kind = "UsageError" /\ InViolation(error.raiser)
               \/ error.kind = "BadParameter" /\ ~InViolation(error.raiser))
        /\ (Handled = DOMAIN command => pc = "failed")

\* the usage error was raised after the value of another supplied option
\* had been processed
C6_Witness ==
    /\ error.kind = "UsageError"
    /\ \E n \in DOMAIN ctx_params : n \in SuppliedNames /\ ctx_params[n] = argv[n]

----------------------------------------------------------------------------
(* C7 *)

\* the command attaches job_dir(mutex=["config_file"]) and
\* config_file(mutex=["job_dir"])
JobDirXorConfigFile ==
    /\ {job_dir_name, config_file_name} \subseteq DOMAIN command
    /\ command[job_dir_name].mut_ex_opts = {config_file_name}
    /\ command[config_file_name].mut_ex_opts = {job_dir_name}

\* C7: in such a command, an invocation with only --job-dir and an existing
\* directory raises nothing and hands the directory to the command, and an
\* invocation with both --job-dir and --config-file never runs the command
\* and ends in a usage error that mentions both flags, whichever of the two
\* is handled first.
C7_JobDirXorConfigFile ==
    JobDirXorConfigFile =>
        /\ (SuppliedNames = {job_dir_name} /\ argv[job_dir_name] \in ExistingPaths) =>
               /\ error = NoError
               /\ (Handled = DOMAIN command => pc \in {"process", "invoked"})
               /\ (pc = "invoked" => ctx_params[job_dir_name] = argv[job_dir_name])
        /\ ({job_dir_name, config_file_name} \subseteq SuppliedNames) =>
               /\ pc # "invoked"
               /\ DOMAIN ctx_params \cap {job_dir_name, config_file_name} = {}
               /\ (Handled \cap {job_dir_name, config_file_name} # {} => pc = "failed")
               /\ (pc = "failed" =>
                      /\ error.kind = "UsageError"
                      /\ MessageMentions(job_dir_flag)
                      /\ MessageMentions(config_file_flag))

\* both were supplied and config_file, handled first, raised the error
C7_Witness ==
    /\ JobDirXorConfigFile
    /\ {job_dir_name, config_file_name} \subseteq SuppliedNames
    /\ UsageErrorBy(config_file_name)
    /\ job_dir_name \notin Handled
    /\ MessageMentions(job_dir_flag)

----------------------------------------------------------------------------
(* C8 *)

\* C8: the command receives, for job_dir, the supplied value or else the
\* current working directory and, for config_file, the supplied value or
\* else klio-job.yaml.
C8_DefaultsApplied ==
    pc = "invoked" =>
        /\ job_dir_name \in DOMAIN command =>
              ctx_params[job_dir_name] =
                  IF job_dir_name \in SuppliedNames THEN argv[job_dir_name] ELSE Cwd
        /\ config_file_name \in DOMAIN command =>
              ctx_params[config_file_name] =
                  IF config_file_name \in SuppliedNames THEN argv[config_file_name]
                  ELSE KlioJobYaml

----------------------------------------------------------------------------
(* C9 *)

\* the rule written out position by position
Rendered(v) ==
    [i \in 1..(Len(v) + 2) |->
        IF i <= 2 THEN "-" ELSE IF v[i - 2] = "_" THEN "-" ELSE v[i - 2]]

\* C9: _varname_to_opt_flag prefixes two hyphens and replaces every
\* underscore by a hyphen, keeping every other character and the length of
\* the name (an_option gives --an-option), and the help note and the error
\* message render flags by this same rule.
C9_FlagRenderingRule ==
    pc = "flag_done" =>
        /\ flag.by = "call" =>
              /\ flag.out = Rendered(var)
              /\ Len(flag.out) = Len(var) + 2
              /\ (var = an_option => flag.out = an_option_flag)
        /\ flag.by = "help" =>
              flag.out = <<"help", NoteText, <<HelpQuote(Rendered(var))>>, NoteEnd>>
        /\ flag.by = "error" =>
              /\ flag.out.kind = "UsageError"
              /\ flag.out.msg.flag = Rendered(var)
              /\ flag.out.msg.mutex = <<MsgQuote(Rendered(var))>>

\* a name with two underscores was rendered into the error message
C9_Witness ==
    /\ pc = "flag_done"
    /\ flag.by = "error"
    /\ var = <<"a", "_", "_", "n">>
    /\ flag.out.msg.mutex = <<MsgQuote(<<"-", "-", "a", "-", "-", "n">>)>>

----------------------------------------------------------------------------
(* C10 *)

\* A lists B as a companion and B declares an empty companion set
OneSided(A, B) ==
    /\ {A, B} \subseteq DOMAIN command
    /\ A # B
    /\ IsMutex(command[A]) /\ IsMutex(command[B])
    /\ B \in command[A].mut_ex_opts
    /\ command[B].mut_ex_opts = {}

\* what C10 says whether or not the invocation always ends in the error of A
OneSidedCommon(A, B) ==
    /\ ~UsageErrorBy(B)
    /\ (SuppliedNames = {B} => error.kind # "UsageError")

\* C10 as stated: every invocation that supplies both A and B ends in the
\* usage error raised by the check of A whatever the order, the check of B
\* never raises, and supplying only A or only B raises no such error.
C10_OneSidedAlwaysUsageErrorOfA ==
    \A A, B \in DOMAIN command :
        OneSided(A, B) =>
            /\ OneSidedCommon(A, B)
            /\ (SuppliedNames = {A} => error.kind # "UsageError")
            /\ ({A, B} \subseteq SuppliedNames) =>
                   /\ pc # "invoked"
                   /\ (pc = "failed" => UsageErrorBy(A))

\* C10 amended: an invocation that supplies both A and B never runs the
\* command and the value of A is never processed; it ends in the usage
\* error raised by the check of A, whatever the order, unless a param
\* handled before A ended it with an error of its own; the check of B never
\* raises; supplying only B raises no mutual-exclusivity error, and neither
\* does supplying only A provided A does not list itself.
C10_OneSidedRejects ==
    \A A, B \in DOMAIN command :
        OneSided(A, B) =>
            /\ OneSidedCommon(A, B)
            /\ ((SuppliedNames = {A} /\ A \notin command[A].mut_ex_opts) =>
                   error.kind # "UsageError")
            /\ ({A, B} \subseteq SuppliedNames) =>
                   /\ pc # "invoked"
                   /\ A \notin DOMAIN ctx_params
                   /\ (A \in Handled => UsageErrorBy(A))
                   /\ (pc = "failed" => (UsageErrorBy(A) \/ A \notin Handled))
                   /\ (Handled = DOMAIN command => pc = "failed")

\* B was handled first and returned its value, then the check of A raised
C10_Witness ==
    \E A, B \in DOMAIN command :
        /\ OneSided(A, B)
        /\ B \in SuppliedNames
        /\ B \in DOMAIN returned
        /\ returned[B] = <<argv[B], args>>
        /\ UsageErrorBy(A)

====
